---- MODULE Spec2Model ----
(***************************************************************************)
(* Model of server.py: the FastAPI record service over three MongoDB       *)
(* collections (status_checks, investor_requests, partnership_inquiries).  *)
(*                                                                         *)
(* Python values are tagged records [t, s, n]: t is the Python type, s the *)
(* characters of a str, n the numeric payload (datetime components, an     *)
(* ObjectId counter, an int).  Dicts and pydantic objects are functions    *)
(* from field names to such values.                                        *)
(***************************************************************************)
EXTENDS Integers, Sequences, FiniteSets, Bags, TLC

\* ------------------------------------------------------------------ bounds
\* Requests the hosting layer accepts in one behaviour.
MaxTasks == 2
\* Size of the space uuid.uuid4() draws from (2^122 in the program).
UuidSpace == 2
\* Documents beyond the listing cap that a collection may already hold.
CapExcess == 1
\* Hex digits of a printed uuid (32 in the program).
UuidHexDigits == 3

\* to_list(1000) in get_status_checks / get_investor_requests.
ListCap == 1000

\* ------------------------------------------------------------ Python values
Str(chars) == [t |-> "str", s |-> chars, n |-> <<>>]
PyInt(k) == [t |-> "int", s |-> <<>>, n |-> <<k>>]
PyBool(b) == [t |-> "bool", s |-> <<>>, n |-> <<IF b THEN 1 ELSE 0>>]
None == [t |-> "none", s |-> <<>>, n |-> <<>>]
\* An aware datetime: minute-and-above part, second, microsecond, UTC offset.
DateTime(mi, se, us, off) == [t |-> "datetime", s |-> <<>>, n |-> <<mi, se, us, off>>]
ObjectId(k) == [t |-> "oid", s |-> <<>>, n |-> <<k>>]

isinstance(v, type) == v.t = type

Min(a, b) == IF a < b THEN a ELSE b

Restrict(f, keys) == [k \in (DOMAIN f) \cap keys |-> f[k]]

\* ----------------------------------------------------------- text encoding
DigitChars == <<"0", "1", "2", "3", "4", "5", "6", "7", "8", "9">>
HexChars == DigitChars \o <<"a", "b", "c", "d", "e", "f">>

RECURSIVE Pow(_, _)
Pow(b, e) == IF e = 0 THEN 1 ELSE b * Pow(b, e - 1)

\* n written in the given base with exactly w digits, most significant first.
Digits(n, w, base) == [i \in 1..w |-> HexChars[((n \div Pow(base, w - i)) % base) + 1]]

IsDigit(c) == \E d \in 1..10 : DigitChars[d] = c

DigitVal(c) == (CHOOSE d \in 1..10 : DigitChars[d] = c) - 1

RECURSIVE ParseInt(_)
ParseInt(chars) ==
    IF chars = <<>> THEN 0
    ELSE 10 * ParseInt(SubSeq(chars, 1, Len(chars) - 1)) + DigitVal(chars[Len(chars)])

AllDigits(chars) == \A i \in 1..Len(chars) : IsDigit(chars[i])

\* str(uuid.uuid4()): the fixed-width lowercase hex form of the drawn value.
UuidStr(u) == Digits(u, UuidHexDigits, 16)

\* uuid.uuid4() draws from this space.
Uuids == 0..(UuidSpace - 1)

\* datetime.isoformat() of an aware datetime: fixed-width fields, the
\* fraction omitted when the microsecond is 0, then the UTC offset.
isoformat(dt) ==
    LET mi == dt.n[1]
        se == dt.n[2]
        us == dt.n[3]
        off == dt.n[4]
        sign == IF off < 0 THEN "-" ELSE "+"
        mag == IF off < 0 THEN -off ELSE off
    IN  Str(Digits(mi, 2, 10) \o <<":">> \o Digits(se, 2, 10)
            \o (IF us = 0 THEN <<>> ELSE <<".">> \o Digits(us, 6, 10))
            \o <<sign>> \o Digits(mag \div 60, 2, 10) \o <<":">> \o Digits(mag % 60, 2, 10))

\* The UTC offset suffix "+HH:MM" / "-HH:MM" of an ISO string, in minutes.
ParseOffset(chars) ==
    LET mag == 60 * ParseInt(SubSeq(chars, 2, 3)) + ParseInt(SubSeq(chars, 5, 6))
    IN  IF chars[1] = "-" THEN -mag ELSE mag

\* datetime.fromisoformat(): fields are read back by position; the seconds
\* and the fraction are optional.
fromisoformat(str) ==
    LET c == str.s
        mi == ParseInt(SubSeq(c, 1, 2))
        hasSec == Len(c) >= 5 /\ c[3] = ":" /\ AllDigits(SubSeq(c, 4, 5))
        se == IF hasSec THEN ParseInt(SubSeq(c, 4, 5)) ELSE 0
        afterSec == IF hasSec THEN 6 ELSE 3
        hasFrac == Len(c) >= afterSec + 6 /\ c[afterSec] = "."
        us == IF hasFrac THEN ParseInt(SubSeq(c, afterSec + 1, afterSec + 6)) ELSE 0
        afterFrac == IF hasFrac THEN afterSec + 7 ELSE afterSec
    IN  DateTime(mi, se, us, ParseOffset(SubSeq(c, afterFrac, Len(c))))

\* ------------------------------------------------------- pydantic models
Kinds == {"StatusCheck", "InvestorRequest", "PartnershipInquiry"}

\* class StatusCheckCreate / InvestorRequestCreate / PartnershipInquiryCreate:
\* the fields without a default.
CreateRequired(kind) ==
    CASE kind = "StatusCheck" -> {"client_name"}
      [] kind = "InvestorRequest" -> {"full_name", "email", "company", "title"}
      [] kind = "PartnershipInquiry" -> {"email"}

\* The Optional[str] = None fields of the input models.
CreateOptional(kind) ==
    IF kind = "InvestorRequest" THEN {"phone", "message"} ELSE {}

\* The fields the input models declare as EmailStr.
EmailFields(kind) ==
    IF kind = "StatusCheck" THEN {} ELSE {"email"}

\* Name of the creation-timestamp field of each record model.
TimestampField(kind) ==
    IF kind = "StatusCheck" THEN "timestamp" ELSE "created_at"

\* class StatusCheck / InvestorRequest / PartnershipInquiry: all fields.
RecordFields(kind) ==
    CASE kind = "StatusCheck" -> {"id", "client_name", "timestamp"}
      [] kind = "InvestorRequest" ->
            {"id", "full_name", "email", "company", "title", "phone", "message", "created_at"}
      [] kind = "PartnershipInquiry" -> {"id", "email", "subject", "forward_to", "created_at"}

Chars(str) == {str[i] : i \in 1..Len(str)}

\* Positions of character c in a string.
Positions(str, c) == {i \in 1..Len(str) : str[i] = c}

\* No empty label: the text neither starts nor ends with a dot and has no
\* two dots in a row.
DotAtomOk(str) ==
    /\ Len(str) > 0
    /\ str[1] # "." /\ str[Len(str)] # "."
    /\ \A i \in 1..(Len(str) - 1) : ~(str[i] = "." /\ str[i + 1] = ".")

\* EmailStr: local-part "@" domain, the domain dotted, its labels not edged
\* by a hyphen.
ValidEmail(str) ==
    /\ Cardinality(Positions(str, "@")) = 1
    /\ LET at == CHOOSE i \in 1..Len(str) : str[i] = "@"
           local == SubSeq(str, 1, at - 1)
           domain == SubSeq(str, at + 1, Len(str))
       IN  /\ DotAtomOk(local)
           /\ DotAtomOk(domain)
           /\ Positions(domain, ".") # {}
           /\ domain[1] # "-" /\ domain[Len(domain)] # "-"
           /\ \A i \in Positions(domain, ".") : domain[i - 1] # "-" /\ domain[i + 1] # "-"

\* A mutant: email declared str in the input models, as the record models
\* declare it.
FieldOkEmailAsStr(kind, f, v) ==
    IF f \in CreateOptional(kind)
    THEN isinstance(v, "str") \/ isinstance(v, "none")
    ELSE isinstance(v, "str")

\* Validation of one field value of an input model.
FieldOk(kind, f, v) ==
    IF f \in CreateOptional(kind)
    THEN isinstance(v, "str") \/ isinstance(v, "none")
    ELSE /\ isinstance(v, "str")
         /\ f \in EmailFields(kind) => ValidEmail(v.s)

\* FastAPI's parse of the request body into the endpoint's input model:
\* FALSE is the 422 response.
ValidBody(kind, body) ==
    /\ CreateRequired(kind) \subseteq DOMAIN body
    /\ \A f \in (CreateRequired(kind) \cup CreateOptional(kind)) \cap DOMAIN body :
          FieldOk(kind, f, body[f])

\* A mutant: an input model configured with extra="allow" keeps every key of
\* the body.
InputModelDumpAllowExtra(kind, body) ==
    [f \in DOMAIN body \cup CreateOptional(kind) |-> IF f \in DOMAIN body THEN body[f] ELSE None]

\* input.model_dump(): the declared fields only (a BaseModel ignores unknown
\* keys), absent optional ones as None.
InputModelDump(kind, body) ==
    [f \in CreateRequired(kind) \cup CreateOptional(kind) |->
        IF f \in DOMAIN body THEN body[f] ELSE None]

SubjectDefault ==
    Str(<<"I", "n", "q", "u", "i", "r", "y", ":", " ", "P", "a", "r", "t", "n", "e",
          "r", "s", "h", "i", "p", "s">>)
ForwardToDefault ==
    Str(<<"o", "f", "f", "i", "c", "e", "@", "o", "n", "e", "a", "v", "i", "a", "t",
          "i", "o", "n", "r", "e", "s", "o", "u", "r", "c", "e", "s", ".", "i",
          "n">>)

\* A mutant: the id default evaluated once, when the class is defined,
\* instead of by a default_factory at each construction.
RecordDefaultsSharedId(kind, u, now) ==
    [f \in RecordFields(kind) \ CreateRequired(kind) |->
        CASE f = "id" -> Str(UuidStr(0))
          [] f = TimestampField(kind) -> now
          [] f = "subject" -> SubjectDefault
          [] f = "forward_to" -> ForwardToDefault
          [] OTHER -> None]

\* The defaults of a record model: id from uuid4 (draw u), the timestamp from
\* datetime.now(timezone.utc), the two PartnershipInquiry constants, None for
\* the optional strings.
RecordDefaults(kind, u, now) ==
    [f \in RecordFields(kind) \ CreateRequired(kind) |->
        CASE f = "id" -> Str(UuidStr(u))
          [] f = TimestampField(kind) -> now
          [] f = "subject" -> SubjectDefault
          [] f = "forward_to" -> ForwardToDefault
          [] OTHER -> None]

\* pydantic's coercion of a keyword argument to the field's type: an ISO
\* string given for a datetime field is parsed.
Coerce(kind, f, v) ==
    IF f = TimestampField(kind) /\ isinstance(v, "str") THEN fromisoformat(v) ELSE v

\* StatusCheck(**d) / InvestorRequest(**d) / PartnershipInquiry(**d) with
\* extra="ignore": keyword arguments for declared fields are taken, the others
\* dropped, and missing fields get their defaults.
RecordModel(kind, kwargs, u, now) ==
    [f \in RecordFields(kind) |->
        IF f \in DOMAIN kwargs THEN Coerce(kind, f, kwargs[f])
        ELSE RecordDefaults(kind, u, now)[f]]

\* A mutant: the timestamp written with isoformat(timespec="minutes").
StoredTimestampMinutes(dt) ==
    LET full == isoformat(dt).s
    IN  Str(SubSeq(full, 1, 2) \o SubSeq(full, Len(full) - 5, Len(full)))

\* doc[ts] = doc[ts].isoformat()
StoredTimestamp(dt) == isoformat(dt)

\* doc = obj.model_dump(); doc[ts] = doc[ts].isoformat()
DocOf(kind, obj) ==
    [f \in DOMAIN obj |-> IF f = TimestampField(kind) THEN StoredTimestamp(obj[f]) ELSE obj[f]]

\* ---------------------------------------------------------------- the store
Collections == {"status_checks", "investor_requests", "partnership_inquiries"}

\* A mutant: create_partnership_inquiry writing to db.investor_requests.
CollectionOfCopyPaste(kind) ==
    CASE kind = "StatusCheck" -> "status_checks"
      [] kind = "InvestorRequest" -> "investor_requests"
      [] kind = "PartnershipInquiry" -> "investor_requests"

\* db.status_checks / db.investor_requests / db.partnership_inquiries
CollectionOf(kind) ==
    CASE kind = "StatusCheck" -> "status_checks"
      [] kind = "InvestorRequest" -> "investor_requests"
      [] kind = "PartnershipInquiry" -> "partnership_inquiries"

\* insert_one gives the dict it is handed an "_id" when it has none.
WithId(doc, oid) ==
    IF "_id" \in DOMAIN doc THEN doc
    ELSE [f \in DOMAIN doc \cup {"_id"} |-> IF f = "_id" THEN oid ELSE doc[f]]

\* A mutant: replace_one({}, doc, upsert=True) in place of insert_one.
InsertOneReplacing(coll, doc) ==
    IF coll = <<>> THEN <<doc>> ELSE [coll EXCEPT ![1] = doc]

\* collection.insert_one(doc): the document is appended to the collection.
InsertOne(coll, doc) == Append(coll, doc)

\* A mutant: find({}) without the {"_id": 0} projection.
FindNoProjection(coll) == coll

\* collection.find({}, {"_id": 0}): every document, "_id" projected away.
Find(coll) == [i \in 1..Len(coll) |-> Restrict(coll[i], DOMAIN coll[i] \ {"_id"})]

\* A mutant: to_list(None), the cursor drained without a cap.
ToListUncapped(cursor, length) == cursor

\* cursor.to_list(length): at most `length` documents, in cursor order.
ToList(cursor, length) == SubSeq(cursor, 1, Min(length, Len(cursor)))

\* The loop of get_status_checks / get_investor_requests: a timestamp still
\* in its str form is parsed back.
PostProcess(kind, docs) ==
    LET ts == TimestampField(kind)
    IN  [i \in 1..Len(docs) |->
            IF ts \in DOMAIN docs[i] /\ isinstance(docs[i][ts], "str")
            THEN [docs[i] EXCEPT ![ts] = fromisoformat(@)]
            ELSE docs[i]]

\* response_model=StatusCheck / List[StatusCheck] ...: the returned value is
\* read through the record model (extra="ignore") before it is sent.
ResponseModel(kind, ret) == [i \in 1..Len(ret) |-> Restrict(ret[i], RecordFields(kind))]

\* ------------------------------------------------------------------ inputs
EmptyDict == [f \in {} |-> None]

GoodEmail == Str(<<"a", "@", "b", ".", "c", "o">>)
NotAnEmail == Str(<<"n", "o", "t", "-", "a", "n", "-", "e", "m", "a", "i", "l">>)
NoDotEmail == Str(<<"a", "@", "b">>)
Name == Str(<<"x">>)

\* Values a caller puts under the server-assigned field names.
CallerId == Str(<<"m", "e">>)
CallerTimestamp == isoformat(DateTime(99, 1, 0, 0))

\* What a caller adds to a body beyond the schema of its kind.
Extras(kind) ==
    [f \in {"admin", "id", TimestampField(kind), "subject", "forward_to"} |->
        CASE f = "admin" -> PyBool(TRUE)
          [] f = "id" -> CallerId
          [] f = TimestampField(kind) -> CallerTimestamp
          [] OTHER -> Name]

\* The body holding exactly the required fields, all valid.
Plain(kind) ==
    [f \in CreateRequired(kind) |-> IF f \in EmailFields(kind) THEN GoodEmail ELSE Name]

With(body, f, v) == [g \in DOMAIN body \cup {f} |-> IF g = f THEN v ELSE body[g]]

Merge(body, more) ==
    [g \in DOMAIN body \cup DOMAIN more |-> IF g \in DOMAIN body THEN body[g] ELSE more[g]]

\* The request bodies tried on the POST endpoint of each kind.
Bodies(kind) ==
    {Plain(kind), Merge(Plain(kind), Extras(kind))}
    \cup (CASE kind = "StatusCheck" -> {EmptyDict, With(Plain(kind), "client_name", PyInt(7))}
            [] kind = "InvestorRequest" ->
                  { With(Plain(kind), "email", NotAnEmail),
                    Restrict(Plain(kind), {"full_name", "email", "title"}),
                    With(Plain(kind), "phone", PyInt(7)) }
            [] kind = "PartnershipInquiry" ->
                  { With(Plain(kind), "email", NoDotEmail),
                    With(Plain(kind), "email", NotAnEmail),
                    EmptyDict })

\* Readings of datetime.now(timezone.utc) tried: a whole second, which
\* isoformat() writes without a fraction, and one with microseconds, which
\* it writes with their leading zeros.
ClockSamples == {DateTime(1, 7, 0, 0), DateTime(0, 59, 500, 0)}

\* ------------------------------------------------------------------- state
VARIABLES
    db,       \* collection name -> documents in the store's natural order
    tasks,    \* the requests accepted so far, a bag of Task records
    issued,   \* the values uuid4() has returned
    oid_inc   \* ObjectIds generated by the driver

vars == <<db, tasks, issued, oid_inc>>

\* One request: its endpoint (kind, op), its body, the handler's position,
\* its locals (obj, doc), and at "done" the status code and returned value.
Task(kind, op, body, pc, obj, doc, status, ret) ==
    [kind |-> kind, op |-> op, body |-> body, pc |-> pc, obj |-> obj, doc |-> doc,
     status |-> status, ret |-> ret]

Init ==
    /\ db = [c \in Collections |-> <<>>]
    /\ tasks = EmptyBag
    /\ issued = {}
    /\ oid_inc = 0

\* ---------------------------------------------------------------- handlers
\* POST on the endpoint of `kind`, up to the await of insert_one, as the task
\* it leaves: the body is parsed (422 on failure, the handler not entered),
\* the record built with uuid4 draw u and clock reading now, and the document
\* derived from it.
Submit(kind, body, u, now) ==
    IF ValidBody(kind, body)
    THEN LET obj == RecordModel(kind, InputModelDump(kind, body), u, now)
         IN  Task(kind, "create", body, "insert_one", obj, DocOf(kind, obj), 0, <<>>)
    ELSE Task(kind, "create", body, "done", EmptyDict, EmptyDict, 422, <<>>)

\* uuid4() is taken to return a value it has not returned before.
Fresh(kind, body, u) == ValidBody(kind, body) => u \notin issued

Drawn(kind, body, u) == IF ValidBody(kind, body) THEN issued \cup {u} ELSE issued

create_status_check(bodies, clock) ==
    \E body \in bodies, u \in Uuids, now \in clock :
        /\ BagCardinality(tasks) < MaxTasks
        /\ Fresh("StatusCheck", body, u)
        /\ tasks' = tasks (+) SetToBag({Submit("StatusCheck", body, u, now)})
        /\ issued' = Drawn("StatusCheck", body, u)
        /\ UNCHANGED <<db, oid_inc>>

create_investor_request(bodies, clock) ==
    \E body \in bodies, u \in Uuids, now \in clock :
        /\ BagCardinality(tasks) < MaxTasks
        /\ Fresh("InvestorRequest", body, u)
        /\ tasks' = tasks (+) SetToBag({Submit("InvestorRequest", body, u, now)})
        /\ issued' = Drawn("InvestorRequest", body, u)
        /\ UNCHANGED <<db, oid_inc>>

create_partnership_inquiry(bodies, clock) ==
    \E body \in bodies, u \in Uuids, now \in clock :
        /\ BagCardinality(tasks) < MaxTasks
        /\ Fresh("PartnershipInquiry", body, u)
        /\ tasks' = tasks (+) SetToBag({Submit("PartnershipInquiry", body, u, now)})
        /\ issued' = Drawn("PartnershipInquiry", body, u)
        /\ UNCHANGED <<db, oid_inc>>

\* GET on the endpoint of `kind`, up to the await of find().to_list().
ListTask(kind) == Task(kind, "list", EmptyDict, "find", EmptyDict, EmptyDict, 0, <<>>)

get_status_checks ==
    /\ BagCardinality(tasks) < MaxTasks
    /\ tasks' = tasks (+) SetToBag({ListTask("StatusCheck")})
    /\ UNCHANGED <<db, issued, oid_inc>>

get_investor_requests ==
    /\ BagCardinality(tasks) < MaxTasks
    /\ tasks' = tasks (+) SetToBag({ListTask("InvestorRequest")})
    /\ UNCHANGED <<db, issued, oid_inc>>

\* The bag of tasks with one copy of t replaced by t2.
Replaced(t, t2) == (tasks (-) SetToBag({t})) (+) SetToBag({t2})

\* The store completes task t's insert_one: the dict gets its "_id" and the
\* document is in the collection.
insert_one(t) ==
    /\ t.pc = "insert_one"
    /\ LET doc == WithId(t.doc, ObjectId(oid_inc + 1))
       IN  /\ db' = [db EXCEPT ![CollectionOf(t.kind)] = InsertOne(@, doc)]
           /\ tasks' = Replaced(t, [t EXCEPT !.doc = doc, !.pc = "inserted"])
    /\ oid_inc' = oid_inc + 1
    /\ UNCHANGED issued

\* The store serves task t's find({}, {"_id": 0}).to_list(1000).
find(t) ==
    /\ t.pc = "find"
    /\ tasks' = Replaced(t, [t EXCEPT !.ret = ToList(Find(db[CollectionOf(t.kind)]), ListCap),
                                      !.pc = "found"])
    /\ UNCHANGED <<db, issued, oid_inc>>

\* A mutant: the insert awaited inside try/except, the record returned anyway.
SubmitResultSwallow(t) == [status |-> 200, ret |-> <<t.obj>>]

\* `_ = await ...insert_one(doc); return obj`: the record once the insert
\* has completed, the 500 of the unhandled exception otherwise.
SubmitResult(t) ==
    IF t.pc = "inserted" THEN [status |-> 200, ret |-> <<t.obj>>]
    ELSE [status |-> 500, ret |-> <<>>]

\* The loop over the fetched documents and `return`, or the 500.
ListResult(t) ==
    IF t.pc = "found" THEN [status |-> 200, ret |-> PostProcess(t.kind, t.ret)]
    ELSE [status |-> 500, ret |-> <<>>]

\* The task t as it ends, from the position its await left it in.
Finished(t) ==
    LET r == IF t.op = "create" THEN SubmitResult(t) ELSE ListResult(t)
    IN  [t EXCEPT !.status = r.status, !.ret = r.ret, !.pc = "done"]

\* Task t resumes after its await has completed, and returns.
return(t) ==
    /\ t.pc \in {"inserted", "found"}
    /\ tasks' = Replaced(t, Finished(t))
    /\ UNCHANGED <<db, issued, oid_inc>>

\* The awaited store call of task t fails: the await raises, nothing is
\* written, and the exception leaves the handler.
store_error(t) ==
    /\ t.pc \in {"insert_one", "find"}
    /\ tasks' = Replaced(t, Finished([t EXCEPT !.pc = "raised"]))
    /\ UNCHANGED <<db, issued, oid_inc>>

Next ==
    \/ create_status_check(Bodies("StatusCheck"), ClockSamples)
    \/ create_investor_request(Bodies("InvestorRequest"), ClockSamples)
    \/ create_partnership_inquiry(Bodies("PartnershipInquiry"), ClockSamples)
    \/ get_status_checks
    \/ get_investor_requests
    \/ \E t \in BagToSet(tasks) : insert_one(t)
    \/ \E t \in BagToSet(tasks) : find(t)
    \/ \E t \in BagToSet(tasks) : store_error(t)
    \/ \E t \in BagToSet(tasks) : return(t)

Spec == Init /\ [][Next]_vars

\* ------------------------------------------------- collections past the cap
\* The k-th document of a collection filled by earlier plain submissions.
Earlier(kind, k) ==
    LET obj == RecordModel(kind, InputModelDump(kind, Plain(kind)), UuidSpace + k,
                           DateTime(0, 7, 0, 0))
    IN  WithId(DocOf(kind, obj), ObjectId(k))

\* Sizes around the cap, and the 1500 of the cap test.
CapSizes == ((ListCap - 1)..(ListCap + CapExcess)) \cup {ListCap + ListCap \div 2}

\* A store in which one of the listed collections already holds n documents.
InitCap ==
    \E kind \in {"StatusCheck", "InvestorRequest"}, n \in CapSizes :
        /\ db = [c \in Collections |->
                    IF c = CollectionOf(kind) THEN [k \in 1..n |-> Earlier(kind, k)] ELSE <<>>]
        /\ tasks = EmptyBag
        /\ issued = {UuidSpace + k : k \in 1..n}
        /\ oid_inc = n

\* The collection that was filled.
Filled(kind) == db[CollectionOf(kind)] # <<>>

\* The requests against such a store: plain submissions to the filled
\* collection and listings of it.
NextCap ==
    \/ Filled("StatusCheck")
          /\ create_status_check({Plain("StatusCheck")}, {DateTime(1, 7, 0, 0)})
    \/ Filled("InvestorRequest")
          /\ create_investor_request({Plain("InvestorRequest")}, {DateTime(1, 7, 0, 0)})
    \/ Filled("StatusCheck") /\ get_status_checks
    \/ Filled("InvestorRequest") /\ get_investor_requests
    \/ \E t \in BagToSet(tasks) : insert_one(t)
    \/ \E t \in BagToSet(tasks) : find(t)
    \/ \E t \in BagToSet(tasks) : store_error(t)
    \/ \E t \in BagToSet(tasks) : return(t)

SpecCap == InitCap /\ [][NextCap]_vars

\* The body sent to the caller by a finished task.
Response(t) == ResponseModel(t.kind, t.ret)

\* ------------------------------------------------------------- vocabulary
TaskSet == BagToSet(tasks)

\* Number of tasks, with multiplicity, among the set S of tasks.
HowMany(S) == BagCardinality([t \in S |-> CopiesIn(t, tasks)])

Submits == {t \in TaskSet : t.op = "create"}
Lists == {t \in TaskSet : t.op = "list"}
Succeeded(t) == t.pc = "done" /\ t.status = 200
Failed(t) == t.pc = "done" /\ t.status # 200

\* The collection the specification names for each kind.
NamedAfter(kind) ==
    CASE kind = "StatusCheck" -> "status_checks"
      [] kind = "InvestorRequest" -> "investor_requests"
      [] kind = "PartnershipInquiry" -> "partnership_inquiries"

\* Indices in collection c of the documents carrying id.
Holding(c, id) == {i \in 1..Len(db[c]) : db[c][i].id = id}

\* ---------------------------------------------------------------------- C1
\* C1: every record returned by a successful Submit has a non-empty id, and
\* no two documents, in the same or in different collections, and no two
\* returned records carry the same id.
C1_UniqueIds ==
    /\ \A t \in Submits : Succeeded(t) =>
          /\ Len(Response(t)) = 1
          /\ isinstance(Response(t)[1].id, "str")
          /\ Response(t)[1].id.s # <<>>
    /\ \A c1 \in Collections, c2 \in Collections :
          \A i \in 1..Len(db[c1]), j \in 1..Len(db[c2]) :
             <<c1, i>> # <<c2, j>> => db[c1][i].id # db[c2][j].id
    /\ \A t1 \in Submits, t2 \in Submits :
          Succeeded(t1) /\ Succeeded(t2) /\ Response(t1)[1].id = Response(t2)[1].id
             => t1 = t2 /\ CopiesIn(t1, tasks) = 1

\* Two submissions with the same body have both been stored and answered.
C1_Witness ==
    \E t1 \in Submits, t2 \in Submits :
        /\ t1 # t2 /\ t1.body = t2.body /\ t1.kind = t2.kind
        /\ Succeeded(t1) /\ Succeeded(t2)
        /\ Len(db[NamedAfter(t1.kind)]) = 2

\* ---------------------------------------------------------------------- C2
\* A body the claim calls invalid: a required field missing, or an email
\* that is no address.
Malformed(t) ==
    \/ \E f \in CreateRequired(t.kind) : f \notin DOMAIN t.body
    \/ "email" \in DOMAIN t.body /\ t.body["email"] \in {NotAnEmail, NoDotEmail}

Arrives(t) == CopiesIn(t, tasks') > CopiesIn(t, tasks)

\* C2: a Submit with a missing required field or a malformed email ends in
\* the 422 of a validation error, returns no record, and the step that
\* takes it leaves every collection as it was.
C2_ValidationLeavesStore ==
    /\ [](\A t \in Submits : Malformed(t) => Failed(t) /\ t.status = 422 /\ t.ret = <<>>)
    /\ [][\A t \in BagToSet(tasks') :
             t.op = "create" /\ Malformed(t) /\ Arrives(t) => t.status = 422 /\ db' = db]_vars

\* "not-an-email" has been refused on /investor-requests while the
\* collection holds a document.
C2_Witness ==
    \E t \in Submits :
        /\ t.kind = "InvestorRequest" /\ t.body["email"] = NotAnEmail
        /\ t.status = 422
        /\ Len(db["investor_requests"]) = 1

\* ---------------------------------------------------------------------- C3
SubjectText ==
    Str(<<"I", "n", "q", "u", "i", "r", "y", ":", " ", "P", "a", "r", "t", "n",
          "e", "r", "s", "h", "i", "p", "s">>)
ForwardToText ==
    Str(<<"o", "f", "f", "i", "c", "e", "@", "o", "n", "e", "a", "v", "i", "a",
          "t", "i", "o", "n", "r", "e", "s", "o", "u", "r", "c", "e", "s", ".",
          "i", "n">>)

\* C3: every PartnershipInquiry returned or stored has the constant subject
\* and forward_to, whatever the body held.
C3_PartnershipConstants ==
    /\ \A t \in Submits : t.kind = "PartnershipInquiry" /\ Succeeded(t) =>
          /\ Response(t)[1].subject = SubjectText
          /\ Response(t)[1].forward_to = ForwardToText
    /\ \A i \in 1..Len(db["partnership_inquiries"]) :
          /\ db["partnership_inquiries"][i].subject = SubjectText
          /\ db["partnership_inquiries"][i].forward_to = ForwardToText

\* An inquiry whose body carried its own subject and forward_to is stored
\* and answered.
C3_Witness ==
    \E t \in Submits :
        /\ t.kind = "PartnershipInquiry" /\ Succeeded(t)
        /\ {"subject", "forward_to"} \subseteq DOMAIN t.body
        /\ Len(db["partnership_inquiries"]) >= 1

\* ---------------------------------------------------------------------- C4
\* The instant of a datetime in whole seconds.
EpochSecond(dt) == (dt.n[1] * 60 + dt.n[2]) - dt.n[4] * 60

\* Submit/List pairs: a successful Submit, a successful List of its kind,
\* and the position of the Submit's record in the List's response.
Listed ==
    {<<s, l, i>> \in Submits \X Lists \X (1..MaxTasks) :
        /\ Succeeded(s) /\ Succeeded(l) /\ l.kind = s.kind
        /\ i <= Len(Response(l))
        /\ Response(l)[i].id = Response(s)[1].id}

\* C4: a record listed after its Submit carries a datetime that equals the
\* one the Submit returned, to the second and in full.
C4_TimestampRoundTrip ==
    \A p \in Listed :
        LET ts == TimestampField(p[1].kind)
            sent == Response(p[1])[1][ts]
            read == Response(p[2])[p[3]][ts]
        IN  /\ isinstance(read, "datetime")
            /\ EpochSecond(read) = EpochSecond(sent)
            /\ read = sent

\* A record with microseconds has been submitted and then listed.
C4_Witness ==
    \E p \in Listed : Response(p[1])[1][TimestampField(p[1].kind)].n[3] # 0

\* ---------------------------------------------------------------------- C5
\* The documents of a kind's collection as records, in their stored form.
StoredRecords(kind) ==
    LET coll == db[NamedAfter(kind)]
    IN  {Restrict(coll[i], RecordFields(kind)) : i \in 1..Len(coll)}

\* A record with its datetime written back as the store holds it.
AsStored(kind, r) ==
    [f \in DOMAIN r |-> IF f = TimestampField(kind) THEN isoformat(r[f]) ELSE r[f]]

\* The records a List sent, in their stored form.
SentRecords(l) ==
    LET sent == Response(l)
    IN  {AsStored(l.kind, sent[i]) : i \in 1..Len(sent)}

\* C5: a List returns at most 1000 records, however many documents the
\* collection holds, and each of them is a document stored in the
\* collection of its kind.
C5_ListCapped ==
    \A l \in Lists : Succeeded(l) =>
        /\ Len(l.ret) <= 1000
        /\ Len(Response(l)) <= 1000
        /\ SentRecords(l) \subseteq StoredRecords(l.kind)

\* A collection of 1500 documents or more has been listed, and the List
\* returned 1000 records.
C5_Witness ==
    \E l \in Lists :
        /\ Succeeded(l)
        /\ Len(db[NamedAfter(l.kind)]) >= 1500
        /\ Len(Response(l)) = 1000

\* ---------------------------------------------------------------------- C6
\* C6: no step changes or removes a stored document: every collection keeps
\* the documents it has, field for field and in place.
C6_AppendOnly ==
    [][\A c \in Collections :
          /\ Len(db'[c]) >= Len(db[c])
          /\ \A i \in 1..Len(db[c]) : db'[c][i] = db[c][i]]_vars

\* A document was stored, and after it a second Submit to the same
\* collection or a List of it has run.
C6_Witness ==
    \/ \E c \in Collections : Len(db[c]) = 2
    \/ Listed # {}

\* ---------------------------------------------------------------------- C7
\* The keys a body has beyond the schema of its kind.
Uninvited(t) == DOMAIN t.body \ (CreateRequired(t.kind) \cup CreateOptional(t.kind))

\* C7: a body with keys outside the schema is not refused for them; the
\* record returned and every stored document hold the fields of the record
\* model only, an id that uuid4 drew and a timestamp read from the clock,
\* never the caller's values.
C7_ExtrasDropped ==
    /\ \A t \in Submits : Uninvited(t) # {} /\ ~Malformed(t) => t.status # 422
    /\ \A t \in Submits : Succeeded(t) =>
          LET r == Response(t)[1]
          IN  /\ DOMAIN r = RecordFields(t.kind)
              /\ "admin" \notin DOMAIN r
              /\ r.id # CallerId
              /\ r.id \in {Str(UuidStr(u)) : u \in issued}
              /\ r[TimestampField(t.kind)] # fromisoformat(CallerTimestamp)
              /\ r[TimestampField(t.kind)] \in ClockSamples
    /\ \A k \in Kinds : \A i \in 1..Len(db[NamedAfter(k)]) :
          LET d == db[NamedAfter(k)][i]
          IN  /\ DOMAIN d = RecordFields(k) \cup {"_id"}
              /\ d.id # CallerId
              /\ d.id \in {Str(UuidStr(u)) : u \in issued}
              /\ d[TimestampField(k)] # CallerTimestamp
              /\ d[TimestampField(k)] \in {isoformat(now) : now \in ClockSamples}

\* A body carrying "admin", an id and a timestamp has been stored and
\* answered.
C7_Witness ==
    \E t \in Submits :
        /\ Succeeded(t)
        /\ {"admin", "id", TimestampField(t.kind)} \subseteq DOMAIN t.body
        /\ Len(db[NamedAfter(t.kind)]) >= 1

\* ---------------------------------------------------------------------- C8
\* C8: a finished Submit either returned one record, and exactly one
\* document with its id is in its collection, or it failed with 422 or 500,
\* returned no record, and no document of its own is in any collection; a
\* Submit whose insert did not complete never returns a record.
C8_SubmitAtomic ==
    \A t \in Submits : t.pc = "done" =>
        /\ t.status \in {200, 422, 500}
        /\ t.status = 200 =>
              /\ Len(t.ret) = 1
              /\ Cardinality(Holding(NamedAfter(t.kind), t.ret[1].id)) = 1
        /\ t.status # 200 =>
              /\ t.ret = <<>>
              /\ Response(t) = <<>>
              /\ t.obj # EmptyDict => \A c \in Collections : Holding(c, t.obj.id) = {}
        /\ t.status = 422 => t.obj = EmptyDict
        /\ "_id" \notin DOMAIN t.doc => t.ret = <<>>

\* One Submit has failed on the store while another has been stored and
\* answered.
C8_Witness ==
    \E t1 \in Submits, t2 \in Submits :
        /\ Failed(t1) /\ t1.status = 500
        /\ Succeeded(t2)

\* ---------------------------------------------------------------------- C9
\* C9: no value a handler returns, and no response built from it, has an
\* "_id" key.
C9_NoRowId ==
    \A t \in TaskSet :
        /\ \A i \in 1..Len(t.ret) : "_id" \notin DOMAIN t.ret[i]
        /\ \A i \in 1..Len(Response(t)) : "_id" \notin DOMAIN Response(t)[i]
        /\ "_id" \notin DOMAIN t.obj

\* insert_one has put "_id" into a Submit's dict, the Submit has returned,
\* and a List has returned the stored document.
C9_Witness ==
    \E s \in Submits, l \in Lists :
        /\ Succeeded(s) /\ "_id" \in DOMAIN s.doc
        /\ Succeeded(l) /\ Len(l.ret) >= 1
        /\ "_id" \in DOMAIN db[NamedAfter(l.kind)][1]

\* --------------------------------------------------------------------- C10
\* The Submits whose insert has completed.
Inserted(t) == t.op = "create" /\ (t.pc = "inserted" \/ Succeeded(t))

\* C10: at every point of every interleaving, each collection holds one
\* document for each Submit of its kind whose insert has completed and none
\* for any other; and a step that stores a document adds one document to one
\* collection and leaves the others alone, while every other step, those of
\* List among them, leaves all collections alone.
C10_OneDocumentPerSubmit ==
    /\ [](/\ \A c \in Collections :
               Len(db[c]) = HowMany({t \in Submits : Inserted(t) /\ NamedAfter(t.kind) = c})
          /\ \A t \in Submits : \A c \in Collections :
               Cardinality(Holding(c, IF t.obj = EmptyDict THEN None ELSE t.obj.id))
                  = IF Inserted(t) /\ NamedAfter(t.kind) = c THEN 1 ELSE 0)
    /\ [][\/ db' = db
          \/ \E t \in Submits :
                /\ t.pc = "insert_one"
                /\ CopiesIn(t, tasks') < CopiesIn(t, tasks)
                /\ \A c \in Collections :
                      Len(db'[c]) = Len(db[c]) + (IF c = NamedAfter(t.kind) THEN 1 ELSE 0)]_vars
    /\ [][(\E l \in BagToSet(tasks') : l.op = "list" /\ CopiesIn(l, tasks') > CopiesIn(l, tasks))
              => db' = db]_vars

\* Two Submits of different kinds were in flight together and both inserts
\* have completed before either returned.
C10_Witness ==
    \E t1 \in Submits, t2 \in Submits :
        /\ t1.kind = "InvestorRequest" /\ t2.kind = "PartnershipInquiry"
        /\ t1.pc = "inserted" /\ t2.pc = "inserted"

====
